---- MODULE Spec2Model ----
(***************************************************************************)
(* Model of the screening core of Incap_MV: the rules engine               *)
(* (src/src/rules/engine.py), the worst-of combination of the screening    *)
(* page (src/app.py) and the spatial joins (src/src/ingestion/spatial.py). *)
(*                                                                         *)
(* Spec     : RulesEngine.evaluate applied to a table and a rule pack, one *)
(*            step per iteration of its loop over the pack's dimensions,   *)
(*            followed by the overall_risk combination of the page.        *)
(* SpecJoin : intersect_with_natura / overlay_corine applied to a point    *)
(*            set and a polygon layer.                                     *)
(***************************************************************************)
EXTENDS Integers, Sequences, FiniteSets, TLC

\* ---------------------------------------------------------------- bounds
MaxRows == 2
MaxRules == 2
MaxDims == 2

\* ------------------------------------------------------- rules engine data
VARIABLES gdf, params, pc, dimension, rules, cols, cats, audit, overall

\* in_cols: the names, beside the attributes, of the columns of the input table;
\* out_cols: for each of them, whether the column of `out` under that name
\* still holds the input's values ("input") or what evaluate assigned ("result").
VARIABLES in_cols, out_cols

rulesVars == <<gdf, params, pc, dimension, rules, cols, cats, audit, overall, in_cols, out_cols>>

Range(s) == {s[k] : k \in 1..Len(s)}

\* Python's None as a category (the value `assigned` starts with).
Unassigned == "None"
Labels == {"Low", "Medium", "High"}

\* Python's None as an attribute value.
PyNone == 0 - 1
Vals == {0, 1}

\* Row index labels of an input table: a join output repeats the label of a
\* point matched several times, and a filtered table skips labels.
IndexLabels == 0..(MaxRows - 1)

AttrNames == {"x", "t"}
ParamNames == {"t"}
DimNames == {"biodiversity", "water", "noise"}

Rows == [idx : IndexLabels, attrs : [AttrNames -> Vals]]

RECURSIVE SeqsUpTo(_, _)
SeqsUpTo(S, n) ==
    IF n = 0 THEN {<<>>}
    ELSE LET shorter == SeqsUpTo(S, n - 1)
         IN shorter \cup {Append(s, e) : s \in {q \in shorter : Len(q) = n - 1}, e \in S}

Tables == SeqsUpTo(Rows, MaxRows)

\* pack.parameters: a mapping from some of the parameter names to values.
ParamMaps == UNION {[D -> Vals] : D \in SUBSET ParamNames}

\* Conditions of the DSL: comparisons `<lhs> == <rhs>`, `<lhs> != <rhs>` and the
\* shortcut `<lhs> not null`, alone or joined by `or` / `and`.  The identifier
\* u is never an attribute nor a parameter.
Atom(l, o, r) == [lhs |-> l, op |-> o, rhs |-> r]
Simple(a) == [join |-> "", atoms |-> <<a>>]
Or(a, b) == [join |-> "or", atoms |-> <<a, b>>]
NoCond == [join |-> "", atoms |-> <<>>]

WhenRule(c, l) == [kind |-> "when", when |-> c, label |-> l]
DefaultRule(l) == [kind |-> "default", when |-> NoCond, label |-> l]

RuleSet == {WhenRule(Simple(Atom("x", "==", 1)), "High"),
            WhenRule(Simple(Atom("t", "==", 1)), "Medium"),
            WhenRule(Simple(Atom("u", "==", 1)), "High"),
            WhenRule(Or(Atom("x", "==", 1), Atom("u", "==", 1)), "Low"),
            DefaultRule("Low"),
            DefaultRule("Medium")}

RuleLists == SeqsUpTo(RuleSet, MaxRules)

\* ------------------------------------------------ RulesEngine._eval_condition
\* expr.replace(" not null", " != None")
Desugar(expr) ==
    [expr EXCEPT !.atoms =
        [k \in 1..Len(expr.atoms) |->
            IF expr.atoms[k].op = "not null"
            THEN Atom(expr.atoms[k].lhs, "!=", PyNone)
            ELSE expr.atoms[k]]]

\* env = {"None": None}; env.update(row); env.update(params)
\* (row.to_dict() also holds the category columns of the dimensions already
\* evaluated; no condition of RuleSet names one.)
Env(row, ps) ==
    [n \in {"None"} \cup DOMAIN row.attrs \cup DOMAIN ps |->
        IF n \in DOMAIN ps THEN ps[n]
        ELSE IF n \in DOMAIN row.attrs THEN row.attrs[n]
        ELSE PyNone]

\* code.co_names of the compiled expression
co_names(expr) == {expr.atoms[k].lhs : k \in 1..Len(expr.atoms)}

Compare(op, a, b) == IF op = "==" THEN a = b ELSE a # b

\* eval(code, {"__builtins__": {}}, env) of a condition whose names are all in env
Eval(expr, env) ==
    IF expr.join = "and"
    THEN \A k \in 1..Len(expr.atoms) :
             Compare(expr.atoms[k].op, env[expr.atoms[k].lhs], expr.atoms[k].rhs)
    ELSE \E k \in 1..Len(expr.atoms) :
             Compare(expr.atoms[k].op, env[expr.atoms[k].lhs], expr.atoms[k].rhs)

\* eval_condition without the check of co_names: a name missing from env reads
\* as None, so every condition yields a boolean.
eval_condition_unchecked(expr, row, ps) ==
    LET e == Desugar(expr)
        env == Env(row, ps)
        lenient == [n \in DOMAIN env \cup co_names(e) |->
                       IF n \in DOMAIN env THEN env[n] ELSE PyNone]
    IN [raised |-> FALSE, value |-> Eval(e, lenient)]

\* The result of one call: raised (ValueError "Illegal name") or a boolean.
eval_condition(expr, row, ps) ==
    LET e == Desugar(expr)
        env == Env(row, ps)
        allowed_names == DOMAIN env
    IN IF \E name \in co_names(e) : name \notin allowed_names /\ name # "in"
       THEN [raised |-> TRUE, value |-> FALSE]
       ELSE [raised |-> FALSE, value |-> Eval(e, env)]

\* ------------------------------------------------------ RulesEngine.evaluate
AuditEntry(dim, cond, assigned) == <<dim, cond, assigned>>

\* for rule in rules: ... (one row); `entry` is what was appended to audit[i]
RECURSIVE RuleLoop(_, _, _, _, _, _)
RuleLoop(rs, k, assigned, row, ps, dim) ==
    IF k > Len(rs) THEN [raised |-> FALSE, assigned |-> assigned, entry |-> <<>>]
    ELSE LET rule == rs[k] IN
         IF rule.kind = "default"
         THEN RuleLoop(rs, k + 1,
                       IF assigned # Unassigned THEN assigned ELSE rule.label,
                       row, ps, dim)
         ELSE LET r == eval_condition(rule.when, row, ps) IN
              IF r.raised
              THEN [raised |-> TRUE, assigned |-> assigned, entry |-> <<>>]
              ELSE IF r.value
              THEN [raised |-> FALSE, assigned |-> rule.label,
                    entry |-> <<AuditEntry(dim, rule.when, rule.label)>>]
              ELSE RuleLoop(rs, k + 1, assigned, row, ps, dim)

\* out.at[i, result_col] = assigned: every row labelled i takes the value
SetAt(tbl, col, i, v) ==
    [q \in 1..Len(tbl) |-> IF tbl[q].idx = i THEN v ELSE col[q]]

\* for i, row in out.iterrows(): ...  (one dimension).  audit[i] is indexed by
\* the row's label i; a label outside the list raises IndexError.
RECURSIVE RowLoop(_, _, _, _, _, _, _)
RowLoop(tbl, p, col, aud, rs, ps, dim) ==
    IF p > Len(tbl) THEN [raised |-> FALSE, col |-> col, audit |-> aud]
    ELSE LET i == tbl[p].idx
             r == RuleLoop(rs, 1, Unassigned, tbl[p], ps, dim)
         IN IF r.raised \/ (r.entry # <<>> /\ i + 1 > Len(aud))
            THEN [raised |-> TRUE, col |-> col, audit |-> aud]
            ELSE RowLoop(tbl, p + 1, SetAt(tbl, col, i, r.assigned),
                         IF r.entry # <<>> THEN [aud EXCEPT ![i + 1] = @ \o r.entry]
                         ELSE aud,
                         rs, ps, dim)

\* result_col = f"{dimension}_category"
result_col(d) == d \o "_category"

\* Names an input table may carry beside its attributes.
InputColumns == {"biodiversity_category", "rulepack_name", "rule_audit"}

\* out[name] = <new column>: the column, if the copy of the input had one of
\* that name, now holds what evaluate assigned.
Assign(oc, names) ==
    [c \in DOMAIN oc |-> IF c \in names THEN "result" ELSE oc[c]]

RulesInit ==
    /\ gdf \in Tables
    /\ params \in ParamMaps
    /\ pc = "eval"
    /\ dimension = ""
    /\ rules = <<>>
    /\ cols = <<>>
    /\ cats = <<>>
    /\ audit = [p \in 1..Len(gdf) |-> <<>>]
    /\ overall = <<>>
    /\ in_cols = {}
    /\ out_cols = <<>>

\* An input table that already carries columns under the names evaluate
\* assigns; out = gdf.copy() starts with all of them holding the input's values.
FrameInit ==
    /\ gdf \in {t \in Tables : Len(t) <= 1}
    /\ params \in ParamMaps
    /\ pc = "eval"
    /\ dimension = ""
    /\ rules = <<>>
    /\ cols = <<>>
    /\ cats = <<>>
    /\ audit = [p \in 1..Len(gdf) |-> <<>>]
    /\ overall = <<>>
    /\ in_cols \in SUBSET InputColumns
    /\ out_cols = [c \in in_cols |-> "input"]

\* One iteration of `for dimension, rules in pack.logic.items()`.
EvalDimension ==
    /\ pc = "eval"
    /\ Len(cols) < MaxDims
    /\ \E d \in DimNames \ Range(cols), rs \in RuleLists :
         LET r == RowLoop(gdf, 1, [q \in 1..Len(gdf) |-> Unassigned], audit, rs, params, d)
         IN /\ dimension' = d
            /\ rules' = rs
            /\ out_cols' = Assign(out_cols, {result_col(d)})
            /\ IF r.raised
               THEN /\ pc' = "raised"
                    /\ UNCHANGED <<cols, cats, audit>>
               ELSE /\ pc' = "eval"
                    /\ cols' = Append(cols, d)
                    /\ cats' = Append(cats, r.col)
                    /\ audit' = r.audit
    /\ UNCHANGED <<gdf, params, overall, in_cols>>

\* The loop is over; out["rule_audit"] = audit (by position); return out.
Return ==
    /\ pc = "eval"
    /\ pc' = "returned"
    /\ out_cols' = Assign(out_cols, {"rulepack_version", "rulepack_name", "rule_audit"})
    /\ UNCHANGED <<gdf, params, dimension, rules, cols, cats, audit, overall, in_cols>>

\* ------------------------------------------- app.py: worst-of combination
order(a) == IF a = "Low" THEN 0 ELSE IF a = "Medium" THEN 1 ELSE IF a = "High" THEN 2 ELSE 0 - 1

\* worst with the comparison turned round: the lower category wins.
worst_flipped(a, b) == IF order(a) <= order(b) THEN a ELSE b

worst(a, b) == IF order(a) >= order(b) THEN a ELSE b

\* r.get("<dimension>_category"): None when the table has no such column
Get(p, dim) ==
    IF \E k \in 1..Len(cols) : cols[k] = dim
    THEN cats[CHOOSE k \in 1..Len(cols) : cols[k] = dim][p]
    ELSE Unassigned

Combine ==
    /\ pc = "returned"
    /\ overall' = [p \in 1..Len(gdf) |-> worst(Get(p, "biodiversity"), Get(p, "water"))]
    /\ pc' = "screened"
    /\ UNCHANGED <<gdf, params, dimension, rules, cols, cats, audit, in_cols, out_cols>>

\* ------------------------------------------------------------ spatial joins
\* Geometry is abstracted to sets of cells on a line: a point is one cell, a
\* polygon a run of cells, a buffer of b widens a geometry by b cells a side.
VARIABLES portfolio, polygons, cfg, joined, jpc

\* The CRS tags: of the portfolio and of the reference layer on entry, of the
\* two tables at the moment of the buffer / join / distance computation, and
\* of the returned table.
VARIABLES portfolio_crs, ref_crs, measure_crs, out_crs

\* The water reference points, the table distance_to_nearest_water returns,
\* and the threshold and the table of flag_within_water_threshold.
VARIABLES water, with_distance, threshold_m, flagged

crsVars == <<portfolio_crs, ref_crs, measure_crs, out_crs>>
distVars == <<water, with_distance, threshold_m, flagged>>
joinVars == <<portfolio, polygons, cfg, joined, jpc, portfolio_crs, ref_crs, measure_crs, out_crs,
              water, with_distance, threshold_m, flagged>>

WGS84 == "EPSG:4326"
NoCRS == "none"
\* CRS tags a table may carry on entry (none: gdf.crs is None).
PortfolioCRS == {NoCRS, "EPSG:4326", "EPSG:4258"}
ReferenceCRS == {NoCRS, "EPSG:4326"}

\* gdf.to_crs(target): the tag of the reprojected table
to_crs(crs, target) == target

\* _ensure_crs_3857(gdf), on the tag
ensure_crs_3857(crs) == to_crs(IF crs = NoCRS THEN WGS84 ELSE crs, "EPSG:3857")

MaxPoints == 2
MaxPolys == 2
MaxCell == 2

Cells == 0..MaxCell
Intervals == {lo..hi : lo \in Cells, hi \in Cells} \ {{}}

\* The portfolio as uploaded: points carrying the default index 0..n-1.
PointSets ==
    UNION {{[p \in 1..n |-> [idx |-> p - 1, geometry |-> {f[p]}]] : f \in [1..n -> Cells]} :
           n \in 0..MaxPoints}

\* A reference layer: polygon k carries the site code k.
Layers ==
    UNION {{[k \in 1..n |-> [code |-> k, geometry |-> f[k]]] : f \in [1..n -> Intervals]} :
           n \in 0..MaxPolys}

\* SpatialJoinConfig: join_how, predicate_intersect, buffer_meters (0: none)
Configs == [join_how : {"left", "inner"},
            predicate_intersect : {"intersects", "contains", "within"},
            buffer_meters : {0, 1}]

NoConfig == [join_how |-> "", predicate_intersect |-> "", buffer_meters |-> 0]

\* a.geometry.buffer(b)
Buffer(g, b) == {c \in (0 - b)..(MaxCell + b) : \E c0 \in g : c - c0 <= b /\ c0 - c <= b}

\* The spatial predicate of a left geometry against a right geometry.
Predicate(name, g, h) ==
    IF name = "intersects" THEN g \cap h # {}
    ELSE IF name = "contains" THEN h \subseteq g
    ELSE g \subseteq h

\* The positions, ascending, of the right rows that satisfy the predicate.
RECURSIVE MatchesFrom(_, _, _, _)
MatchesFrom(g, b, name, k) ==
    IF k > Len(b) THEN <<>>
    ELSE (IF Predicate(name, g, b[k].geometry) THEN <<k>> ELSE <<>>)
         \o MatchesFrom(g, b, name, k + 1)

NullCode == 0
NoMatchRow(row) ==
    [idx |-> row.idx, geometry |-> row.geometry, index_right |-> PyNone, code |-> NullCode]
MatchRow(row, b, k) ==
    [idx |-> row.idx, geometry |-> row.geometry, index_right |-> k - 1, code |-> b[k].code]

\* gpd.sjoin(a, b, how, predicate): one output row per (left row, matching right
\* row) pair, carrying the left row's index label; a left row without a match
\* gives one row of nulls when how = "left" and none when how = "inner".
RECURSIVE sjoin(_, _, _, _, _)
sjoin(a, b, how, name, p) ==
    IF p > Len(a) THEN <<>>
    ELSE LET m == MatchesFrom(a[p].geometry, b, name, 1)
             here == IF m = <<>>
                     THEN (IF how = "left" THEN <<NoMatchRow(a[p])>> ELSE <<>>)
                     ELSE [j \in 1..Len(m) |-> MatchRow(a[p], b, m[j])]
         IN here \o sjoin(a, b, how, name, p + 1)

\* The tables before any operation ran.
CrsInit ==
    /\ portfolio_crs \in PortfolioCRS
    /\ ref_crs \in ReferenceCRS
    /\ measure_crs = <<>>
    /\ out_crs = NoCRS

NoDistance ==
    /\ with_distance = <<>>
    /\ threshold_m = 0
    /\ flagged = <<>>

JoinInit ==
    /\ portfolio \in PointSets
    /\ polygons \in Layers
    /\ cfg = NoConfig
    /\ joined = <<>>
    /\ jpc = "input"
    /\ CrsInit
    /\ water = <<>>
    /\ NoDistance

\* intersect_with_natura(portfolio, natura_polygons, cfg)
intersect_with_natura ==
    /\ jpc = "input"
    /\ \E c \in Configs :
         LET a == IF c.buffer_meters # 0
                  THEN [p \in 1..Len(portfolio) |->
                           [portfolio[p] EXCEPT !.geometry = Buffer(@, c.buffer_meters)]]
                  ELSE portfolio
         IN /\ cfg' = c
            /\ joined' = sjoin(a, polygons, c.join_how, c.predicate_intersect, 1)
    /\ measure_crs' = <<ensure_crs_3857(portfolio_crs), ensure_crs_3857(ref_crs)>>
    /\ out_crs' = to_crs("EPSG:3857", WGS84)
    /\ jpc' = "natura"
    /\ UNCHANGED <<portfolio, polygons, portfolio_crs, ref_crs, distVars>>

\* overlay_corine(portfolio, corine_polygons): left join on intersects, the
\* index_right column dropped.
overlay_corine ==
    /\ jpc = "input"
    /\ cfg' = NoConfig
    /\ joined' = LET out == sjoin(portfolio, polygons, "left", "intersects", 1)
                 IN [p \in 1..Len(out) |-> [out[p] EXCEPT !.index_right = PyNone]]
    /\ measure_crs' = <<ensure_crs_3857(portfolio_crs), ensure_crs_3857(ref_crs)>>
    /\ out_crs' = to_crs("EPSG:3857", WGS84)
    /\ jpc' = "corine"
    /\ UNCHANGED <<portfolio, polygons, portfolio_crs, ref_crs, distVars>>

\* ------------------------------------------------- distance to nearest water
Min(S) == CHOOSE m \in S : \A n \in S : m <= n
Max(S) == CHOOSE m \in S : \A n \in S : n <= m

\* geom.bounds: the bounding box of a geometry
bounds(g) == [lo |-> Min(g), hi |-> Max(g)]

\* The distance between two boxes, which the index orders its entries by.
BoxDistance(q, b) ==
    IF q.hi < b.lo THEN b.lo - q.hi
    ELSE IF b.hi < q.lo THEN q.lo - b.hi
    ELSE 0

\* A nearest that looks no further than the first entry of the index.
nearest_first_entry(w, q) == {1}

\* w_sindex.nearest(geom.bounds, 1): the positions of the entries whose box is
\* nearest to the query box; entries at equal distance are all returned, in an
\* order the index decides.
nearest(w, q) ==
    {k \in 1..Len(w) :
        \A j \in 1..Len(w) :
            BoxDistance(q, bounds(w[k].geometry)) <= BoxDistance(q, bounds(w[j].geometry))}

\* p1, p2 = nearest_points(geom, candidate); p1.distance(p2)
Distance(g, h) ==
    Min({IF c <= d THEN d - c ELSE c - d : c \in g, d \in h})

\* The water layer: points carrying the default index 0..n-1.
WaterSets == PointSets

DistInit ==
    /\ portfolio \in PointSets
    /\ water \in WaterSets
    /\ polygons = <<>>
    /\ cfg = NoConfig
    /\ joined = <<>>
    /\ jpc = "input"
    /\ CrsInit
    /\ NoDistance

\* distance_to_nearest_water(portfolio, water_geoms); possible_matches_index[0]
\* raises IndexError when the index returns nothing (an empty water layer).
distance_to_nearest_water ==
    /\ jpc = "input"
    /\ measure_crs' = <<ensure_crs_3857(portfolio_crs), ensure_crs_3857(ref_crs)>>
    /\ IF portfolio # <<>> /\ water = <<>>
       THEN /\ jpc' = "raised"
            /\ UNCHANGED <<with_distance, out_crs>>
       ELSE /\ \E first \in [1..Len(portfolio) -> 1..Len(water)] :
                 /\ \A p \in 1..Len(portfolio) :
                        first[p] \in nearest(water, bounds(portfolio[p].geometry))
                 /\ with_distance' =
                        [p \in 1..Len(portfolio) |->
                            [idx |-> portfolio[p].idx,
                             geometry |-> portfolio[p].geometry,
                             dist_water_m |-> Distance(portfolio[p].geometry,
                                                       water[first[p]].geometry),
                             nearest_water_id |-> water[first[p]].idx]]
            /\ out_crs' = to_crs("EPSG:3857", WGS84)
            /\ jpc' = "distance"
    /\ UNCHANGED <<portfolio, polygons, cfg, joined, portfolio_crs, ref_crs,
                   water, threshold_m, flagged>>

\* The flag with the boundary left out.
within_threshold_strict(d, t) == d < t

\* out["dist_water_m"] <= threshold_m, for one row
within_threshold(d, t) == d <= t

Thresholds == 0..MaxCell

\* flag_within_water_threshold(portfolio_with_distance, threshold_m)
flag_within_water_threshold ==
    /\ jpc = "distance"
    /\ \E t \in Thresholds :
         /\ threshold_m' = t
         /\ flagged' =
                [p \in 1..Len(with_distance) |->
                    [idx |-> with_distance[p].idx,
                     geometry |-> with_distance[p].geometry,
                     dist_water_m |-> with_distance[p].dist_water_m,
                     nearest_water_id |-> with_distance[p].nearest_water_id,
                     near_water_bool |-> within_threshold(with_distance[p].dist_water_m, t)]]
    /\ jpc' = "flagged"
    /\ UNCHANGED <<portfolio, polygons, cfg, joined, crsVars, water, with_distance>>

\* ------------------------------------------------------ RulesEngine.load_pack
\* doc: what yaml.safe_load returned; pack: the RulePack load_pack returned.
VARIABLES doc, pack, lpc

packVars == <<doc, pack, lpc>>

Keys == {"version", "name", "description", "parameters", "logic"}

\* The values a document may give its fields.
FieldValues ==
    [version : {1, 2},
     name : {"core", "eu"},
     description : {"", "sample pack"},
     parameters : {<<>>, [t |-> 1]},
     logic : {<<>>, [water |-> <<DefaultRule("Low")>>]}]

\* A field the document does not have carries no value of its own.
Blank == [version |-> 1, name |-> "core", description |-> "", parameters |-> <<>>, logic |-> <<>>]

\* yaml.safe_load gives a mapping, None for an empty document, or a sequence.
Mappings(ks) ==
    {[kind |-> "mapping", keys |-> ks, data |-> d] :
        d \in {f \in FieldValues : \A k \in Keys \ ks : f[k] = Blank[k]}}

Documents ==
    UNION {Mappings(ks) : ks \in SUBSET Keys}
    \cup {[kind |-> "null", keys |-> {}, data |-> Blank],
          [kind |-> "sequence", keys |-> {}, data |-> Blank]}

NoDocument == [kind |-> "", keys |-> {}, data |-> Blank]
NoPack == [version |-> 0, name |-> "", description |-> "", parameters |-> <<>>, logic |-> <<>>]

\* A lookup that answers for a missing key instead of raising.
getitem_lenient(d, k) == [raised |-> d.kind # "mapping", value |-> d.data[k]]

\* data[k]: KeyError when the mapping has no key k, TypeError when data is
\* None or a sequence.
getitem(d, k) ==
    [raised |-> d.kind # "mapping" \/ k \notin d.keys, value |-> d.data[k]]

\* data.get(k, default), reached only after data["name"] succeeded
get(d, k, default) == IF k \in d.keys THEN d.data[k] ELSE default

PackInit ==
    /\ doc \in Documents
    /\ pack = NoPack
    /\ lpc = "document"

load_pack ==
    /\ lpc = "document"
    /\ LET version == getitem(doc, "version")
           name == getitem(doc, "name")
           logic == getitem(doc, "logic")
       IN IF version.raised \/ name.raised \/ logic.raised
          THEN /\ lpc' = "raised"
               /\ UNCHANGED pack
          ELSE /\ lpc' = "loaded"
               /\ pack' = [version |-> version.value,
                           name |-> name.value,
                           description |-> get(doc, "description", ""),
                           parameters |-> get(doc, "parameters", <<>>),
                           logic |-> logic.value]
    /\ UNCHANGED doc

\* ------------------------------------------- GeocoderService.geocode_dataframe
\* df: the input table, one address query per row; providers: self._providers;
\* answers: what provider.geocode does for each provider and query;
\* geocoded: the table returned, tagged geocoded_crs.
VARIABLES df, providers, answers, geocoded, geocoded_crs, gpc

geoVars == <<df, providers, answers, geocoded, geocoded_crs, gpc>>

MaxAddresses == 2

Queries == {"Calle Mayor 1, Madrid", "nowhere"}
ProviderNames == {"arcgis", "nominatim"}

\* __init__: ArcGIS first, then Nominatim, each behind its flag.
ProviderLists == {<<>>, <<"arcgis">>, <<"nominatim">>, <<"arcgis", "nominatim">>}

\* provider.geocode(query) returns a location, returns None, or raises.
Outcomes == {"found", "none", "raise"}

AddressTables ==
    {[p \in 1..Len(qs) |-> [idx |-> p - 1, address |-> qs[p]]] :
        qs \in SeqsUpTo(Queries, MaxAddresses)}

\* The location a provider finds for a query.
Location(pr, q) ==
    [longitude |-> IF q = "nowhere" THEN 1 ELSE 2,
     latitude |-> IF pr = "arcgis" THEN 3 ELSE 4]

\* Point(loc.longitude, loc.latitude)
Point(loc) == [x |-> loc.longitude, y |-> loc.latitude]

NoPoint == [x |-> PyNone, y |-> PyNone]

RECURSIVE geocode_one_uncaught(_, _, _)
\* geocode_one without the try / except: a provider's exception goes up.
geocode_one_uncaught(ps, ans, q) ==
    IF ps = <<>> THEN [raised |-> FALSE, found |-> FALSE, pt |-> NoPoint]
    ELSE IF ans[<<Head(ps), q>>] = "raise"
         THEN [raised |-> TRUE, found |-> FALSE, pt |-> NoPoint]
    ELSE IF ans[<<Head(ps), q>>] = "found"
         THEN [raised |-> FALSE, found |-> TRUE, pt |-> Point(Location(Head(ps), q))]
    ELSE geocode_one_uncaught(Tail(ps), ans, q)

RECURSIVE geocode_one(_, _, _)
\* geocode_one(query): the providers in turn; `except Exception: continue`
\* and a None answer both go on to the next provider; None when none is left.
geocode_one(ps, ans, q) ==
    IF ps = <<>> THEN [raised |-> FALSE, found |-> FALSE, pt |-> NoPoint]
    ELSE IF ans[<<Head(ps), q>>] = "found"
         THEN [raised |-> FALSE, found |-> TRUE, pt |-> Point(Location(Head(ps), q))]
    ELSE geocode_one(Tail(ps), ans, q)

GeoInit ==
    /\ df \in AddressTables
    /\ providers \in ProviderLists
    /\ answers \in [ProviderNames \X Queries -> Outcomes]
    /\ geocoded = <<>>
    /\ geocoded_crs = NoCRS
    /\ gpc = "input"

geocode_dataframe ==
    /\ gpc = "input"
    /\ LET pts == [p \in 1..Len(df) |-> geocode_one(providers, answers, df[p].address)]
       IN IF \E p \in 1..Len(df) : pts[p].raised
          THEN /\ gpc' = "raised"
               /\ UNCHANGED <<geocoded, geocoded_crs>>
          ELSE /\ geocoded' =
                      [p \in 1..Len(df) |->
                          [idx |-> df[p].idx,
                           address |-> df[p].address,
                           lon |-> IF pts[p].found THEN pts[p].pt.x ELSE PyNone,
                           lat |-> IF pts[p].found THEN pts[p].pt.y ELSE PyNone]]
               /\ geocoded_crs' = WGS84
               /\ gpc' = "returned"
    /\ UNCHANGED <<df, providers, answers>>

\* ------------------------------------------------------------ app.py: main
\* st.session_state lives as long as the browser session; every interaction
\* runs main() once.  portfolio_gdf and screen_results are the two keys:
\* present or not, and holding None (value 0), the portfolio read from file k
\* (value k), or the results computed from the portfolio of file k (value k).
\* page, f, button are the inputs of the last run (the page chosen in the
\* sidebar, the file in the uploader, the page's button), shown what it ended
\* with.
VARIABLES portfolio_gdf, screen_results, page, f, button, shown

appVars == <<portfolio_gdf, screen_results, page, f, button, shown>>

MaxFiles == 3

NoFile == 0
Files == 1..MaxFiles

Absent == [present |-> FALSE, value |-> 0]
None == [present |-> TRUE, value |-> 0]
Holding(k) == [present |-> TRUE, value |-> k]

\* init_state(), for one key
init_state(entry) == IF ~entry.present THEN None ELSE entry

\* A fresh session: st.session_state is empty and nothing has run.
AppInit ==
    /\ portfolio_gdf = Absent
    /\ screen_results = Absent
    /\ page = ""
    /\ f = NoFile
    /\ button = FALSE
    /\ shown = ""

\* main() with page 1: page_upload.  read_ok: whether reading (and geocoding)
\* the file went through or raised, which the page catches.
page_upload ==
    \E file \in {NoFile} \cup Files, read_ok \in BOOLEAN :
        /\ read_ok \/ file # NoFile
        /\ page' = "1"
        /\ f' = file
        /\ button' = FALSE
        /\ screen_results' = init_state(screen_results)
        /\ IF file = NoFile
           THEN /\ portfolio_gdf' = init_state(portfolio_gdf)
                /\ shown' = "form"
           ELSE IF read_ok
           THEN /\ portfolio_gdf' = Holding(file)
                /\ shown' = "preview"
           ELSE /\ portfolio_gdf' = init_state(portfolio_gdf)
                /\ shown' = "error"

\* main() with page 2: page_overlays_and_screen.  None.to_crs(...) raises
\* AttributeError; screen_ok: whether the joins and evaluate went through.
page_overlays_and_screen ==
    \E pressed \in BOOLEAN, screen_ok \in BOOLEAN :
        LET pf == init_state(portfolio_gdf)
            sr == init_state(screen_results)
        IN /\ screen_ok \/ (pressed /\ pf.value # 0)
           /\ page' = "2"
           /\ f' = NoFile
           /\ portfolio_gdf' = pf
           /\ IF ~pf.present
              THEN /\ shown' = "warning"
                   /\ button' = FALSE
                   /\ screen_results' = sr
              ELSE IF pf.value = 0
              THEN /\ shown' = "exception"
                   /\ button' = FALSE
                   /\ screen_results' = sr
              ELSE /\ button' = pressed
                   /\ IF ~pressed
                      THEN shown' = "form" /\ screen_results' = sr
                      ELSE IF screen_ok
                      THEN shown' = "success" /\ screen_results' = Holding(pf.value)
                      ELSE shown' = "exception" /\ screen_results' = sr

\* main() with page 3: page_results.  None.columns raises AttributeError.
page_results ==
    LET pf == init_state(portfolio_gdf)
        sr == init_state(screen_results)
    IN /\ page' = "3"
       /\ f' = NoFile
       /\ button' = FALSE
       /\ portfolio_gdf' = pf
       /\ screen_results' = sr
       /\ shown' = IF ~sr.present THEN "warning"
                   ELSE IF sr.value = 0 THEN "exception"
                   ELSE "results"

\* main() with page 4: page_report.  res is used only under the button:
\* None["overall_risk"] raises TypeError.
page_report ==
    \E pressed \in BOOLEAN :
        LET pf == init_state(portfolio_gdf)
            sr == init_state(screen_results)
        IN /\ page' = "4"
           /\ f' = NoFile
           /\ portfolio_gdf' = pf
           /\ screen_results' = sr
           /\ IF ~sr.present
              THEN shown' = "warning" /\ button' = FALSE
              ELSE /\ button' = pressed
                   /\ shown' = IF ~pressed THEN "form"
                               ELSE IF sr.value = 0 THEN "exception"
                               ELSE "report"

\* --------------------------------------------------------- specifications
vars == <<gdf, params, pc, dimension, rules, cols, cats, audit, overall, in_cols, out_cols,
          portfolio, polygons, cfg, joined, jpc, portfolio_crs, ref_crs, measure_crs, out_crs,
          water, with_distance, threshold_m, flagged, doc, pack, lpc,
          df, providers, answers, geocoded, geocoded_crs, gpc,
          portfolio_gdf, screen_results, page, f, button, shown>>

AppIdle ==
    /\ portfolio_gdf = Absent
    /\ screen_results = Absent
    /\ page = "idle"
    /\ f = NoFile
    /\ button = FALSE
    /\ shown = ""

GeoIdle ==
    /\ df = <<>>
    /\ providers = <<>>
    /\ answers = <<>>
    /\ geocoded = <<>>
    /\ geocoded_crs = NoCRS
    /\ gpc = "idle"

PackIdle ==
    /\ doc = NoDocument
    /\ pack = NoPack
    /\ lpc = "idle"

RulesIdle ==
    /\ gdf = <<>>
    /\ params = <<>>
    /\ pc = "idle"
    /\ dimension = ""
    /\ rules = <<>>
    /\ cols = <<>>
    /\ cats = <<>>
    /\ audit = <<>>
    /\ overall = <<>>
    /\ in_cols = {}
    /\ out_cols = <<>>

JoinIdle ==
    /\ portfolio = <<>>
    /\ polygons = <<>>
    /\ cfg = NoConfig
    /\ joined = <<>>
    /\ jpc = "idle"
    /\ portfolio_crs = NoCRS
    /\ ref_crs = NoCRS
    /\ measure_crs = <<>>
    /\ out_crs = NoCRS
    /\ water = <<>>
    /\ NoDistance

Init == RulesInit /\ JoinIdle /\ PackIdle /\ GeoIdle /\ AppIdle

Next ==
    \/ EvalDimension /\ UNCHANGED <<joinVars, packVars, geoVars, appVars>>
    \/ Return /\ UNCHANGED <<joinVars, packVars, geoVars, appVars>>
    \/ Combine /\ UNCHANGED <<joinVars, packVars, geoVars, appVars>>

Spec == Init /\ [][Next]_vars

InitFrame == FrameInit /\ JoinIdle /\ PackIdle /\ GeoIdle /\ AppIdle

SpecFrame == InitFrame /\ [][Next]_vars

InitJoin == JoinInit /\ RulesIdle /\ PackIdle /\ GeoIdle /\ AppIdle

NextJoin ==
    \/ intersect_with_natura /\ UNCHANGED <<rulesVars, packVars, geoVars, appVars>>
    \/ overlay_corine /\ UNCHANGED <<rulesVars, packVars, geoVars, appVars>>

SpecJoin == InitJoin /\ [][NextJoin]_vars

InitDist == DistInit /\ RulesIdle /\ PackIdle /\ GeoIdle /\ AppIdle

NextDist ==
    \/ distance_to_nearest_water /\ UNCHANGED <<rulesVars, packVars, geoVars, appVars>>
    \/ flag_within_water_threshold /\ UNCHANGED <<rulesVars, packVars, geoVars, appVars>>

SpecDist == InitDist /\ [][NextDist]_vars

InitPack == PackInit /\ RulesIdle /\ JoinIdle /\ GeoIdle /\ AppIdle

NextPack == load_pack /\ UNCHANGED <<rulesVars, joinVars, geoVars, appVars>>

SpecPack == InitPack /\ [][NextPack]_vars

InitGeo == GeoInit /\ RulesIdle /\ JoinIdle /\ PackIdle /\ AppIdle

NextGeo == geocode_dataframe /\ UNCHANGED <<rulesVars, joinVars, packVars, appVars>>

SpecGeo == InitGeo /\ [][NextGeo]_vars

InitApp == AppInit /\ RulesIdle /\ JoinIdle /\ PackIdle /\ GeoIdle

\* main(): init_state(), then the page chosen in the sidebar.
NextApp ==
    \/ page_upload /\ UNCHANGED <<rulesVars, joinVars, packVars, geoVars>>
    \/ page_overlays_and_screen /\ UNCHANGED <<rulesVars, joinVars, packVars, geoVars>>
    \/ page_results /\ UNCHANGED <<rulesVars, joinVars, packVars, geoVars>>
    \/ page_report /\ UNCHANGED <<rulesVars, joinVars, packVars, geoVars>>

SpecApp == InitApp /\ [][NextApp]_vars

\* ------------------------------------------------------------- properties
\* The dimension evaluated last has produced its column.
Evaluated == pc \in {"eval", "returned", "screened"} /\ cols # <<>>
Current == cats[Len(cols)]

\* The input table carries the default index 0..n-1.
RangeIndexed == \A p \in 1..Len(gdf) : gdf[p].idx = p - 1

Names(cond) == {cond.atoms[k].lhs : k \in 1..Len(cond.atoms)}
Resolvable(cond, row, ps) == Names(cond) \subseteq DOMAIN row.attrs \cup DOMAIN ps \cup {"None"}

\* The condition of rule k holds for the row, as the engine evaluates it.
Holds(rs, k, row, ps) ==
    /\ rs[k].kind = "when"
    /\ Resolvable(rs[k].when, row, ps)
    /\ eval_condition(rs[k].when, row, ps).value

HasMatch(rs, row, ps) == \E k \in 1..Len(rs) : Holds(rs, k, row, ps)
FirstMatch(rs, row, ps) ==
    CHOOSE k \in 1..Len(rs) : Holds(rs, k, row, ps) /\ \A j \in 1..(k - 1) : ~Holds(rs, j, row, ps)

HasDefault(rs) == \E k \in 1..Len(rs) : rs[k].kind = "default"
FirstDefault(rs) ==
    CHOOSE k \in 1..Len(rs) : rs[k].kind = "default" /\ \A j \in 1..(k - 1) : rs[j].kind # "default"

\* C1: for every feature and dimension, the category is the `then` label of the
\* first conditional rule, in list order, whose condition holds for the feature.
C1_FirstMatchWins ==
    Evaluated =>
        \A p \in 1..Len(gdf) :
            HasMatch(rules, gdf[p], params) =>
                Current[p] = rules[FirstMatch(rules, gdf[p], params)].label

\* C1 on tables that carry the default index 0..n-1.
FirstMatchWins_RangeIndex == RangeIndexed => C1_FirstMatchWins

\* C2: where no conditional rule holds, the category is the first default
\* rule's label, or Unassigned when the list has no default rule.
C2_DefaultFallback ==
    Evaluated =>
        \A p \in 1..Len(gdf) :
            ~HasMatch(rules, gdf[p], params) =>
                Current[p] = IF HasDefault(rules) THEN rules[FirstDefault(rules)].label
                             ELSE Unassigned

\* C2 on tables that carry the default index 0..n-1.
DefaultFallback_RangeIndex == RangeIndexed => C2_DefaultFallback

\* Severity of a category under Unassigned < Low < Medium < High.
Severity(c) == IF c = "High" THEN 3 ELSE IF c = "Medium" THEN 2 ELSE IF c = "Low" THEN 1 ELSE 0
MaxCategory(S) ==
    IF S = {} THEN Unassigned
    ELSE CHOOSE c \in S : \A d \in S : Severity(d) <= Severity(c)

\* C3 (as stated): overall_risk is the maximum over the categories of all the
\* dimensions the pack defines.
C3_WorstOfAllDimensions ==
    pc = "screened" =>
        \A p \in 1..Len(gdf) :
            overall[p] = MaxCategory({cats[k][p] : k \in 1..Len(cols)})

\* C3 (amended): overall_risk is the maximum of biodiversity_category and
\* water_category, a dimension the pack lacks counting as Unassigned; no other
\* dimension takes part.
C3_WorstOfBiodiversityAndWater ==
    pc = "screened" =>
        \A p \in 1..Len(gdf) :
            overall[p] = MaxCategory({Get(p, "biodiversity"), Get(p, "water")})

\* C3 witness: a screened feature with (High, Low) and overall_risk High.
C3_Witness ==
    /\ pc = "screened"
    /\ \E p \in 1..Len(gdf) :
         /\ Get(p, "biodiversity") = "High"
         /\ Get(p, "water") = "Low"
         /\ overall[p] = "High"

\* A screened feature with (Medium, Unassigned) and overall_risk Medium.
MediumUnassigned_Reached ==
    /\ pc = "screened"
    /\ \E p \in 1..Len(gdf) :
         /\ Get(p, "biodiversity") = "Medium"
         /\ Get(p, "water") = Unassigned
         /\ overall[p] = "Medium"

ExpectedEntry(dim, rs, row, ps) ==
    IF HasMatch(rs, row, ps)
    THEN LET k == FirstMatch(rs, row, ps) IN <<AuditEntry(dim, rs[k].when, rs[k].label)>>
    ELSE <<>>

\* C4: each evaluated dimension appends to a feature's rule_audit exactly one
\* entry when a conditional rule matched the feature and none otherwise, so the
\* entries stand in the order the dimensions are declared.
C4_AuditPerConditionalMatch ==
    [][(pc' = "eval" /\ cols' # cols) =>
          \A p \in 1..Len(gdf) :
              audit'[p] = audit[p] \o ExpectedEntry(dimension', rules', gdf[p], params)]_vars

\* C4 on tables that carry the default index 0..n-1.
AuditPerConditionalMatch_RangeIndex ==
    [][(RangeIndexed /\ pc' = "eval" /\ cols' # cols) =>
          \A p \in 1..Len(gdf) :
              audit'[p] = audit[p] \o ExpectedEntry(dimension', rules', gdf[p], params)]_vars

\* C5: a feature's rule_audit is never longer than the number of dimensions
\* evaluated, and each entry sits on the row whose attributes match its condition.
C5_AuditOnOwnRow ==
    \A p \in 1..Len(audit) :
        /\ Len(audit[p]) <= Len(cols)
        /\ \A e \in 1..Len(audit[p]) :
              eval_condition(audit[p][e][2], gdf[p], params).value

\* Attribute-first resolution: the feature's attribute, else the parameter.
AttrFirst(row, ps) ==
    [n \in {"None"} \cup DOMAIN row.attrs \cup DOMAIN ps |->
        IF n \in DOMAIN row.attrs THEN row.attrs[n]
        ELSE IF n \in DOMAIN ps THEN ps[n]
        ELSE PyNone]
HoldsAttrFirst(rs, k, row, ps) ==
    /\ rs[k].kind = "when"
    /\ Resolvable(rs[k].when, row, ps)
    /\ Eval(Desugar(rs[k].when), AttrFirst(row, ps))
CategoryAttrFirst(rs, row, ps) ==
    IF \E k \in 1..Len(rs) : HoldsAttrFirst(rs, k, row, ps)
    THEN rs[CHOOSE k \in 1..Len(rs) :
                /\ HoldsAttrFirst(rs, k, row, ps)
                /\ \A j \in 1..(k - 1) : ~HoldsAttrFirst(rs, j, row, ps)].label
    ELSE IF HasDefault(rs) THEN rs[FirstDefault(rs)].label
    ELSE Unassigned

\* C6: a name that is both an attribute of the feature and a parameter of the
\* pack is evaluated with the attribute's value (stated on tables with the
\* default index, where a row's category is its own).
C6_AttributeBeforeParameter ==
    (Evaluated /\ RangeIndexed) =>
        \A p \in 1..Len(gdf) : Current[p] = CategoryAttrFirst(rules, gdf[p], params)

\* Rule k of the list is evaluated for the row: no conditional rule before it held.
Reached(rs, k, row, ps) ==
    \A j \in 1..(k - 1) :
        rs[j].kind = "when" => (Resolvable(rs[j].when, row, ps) /\ ~Holds(rs, j, row, ps))

EvaluatesUnresolvable ==
    /\ dimension # ""
    /\ \E p \in 1..Len(gdf), k \in 1..Len(rules) :
         /\ rules[k].kind = "when"
         /\ ~Resolvable(rules[k].when, gdf[p], params)
         /\ Reached(rules, k, gdf[p], params)

\* C7: when a condition that names an identifier that is neither an attribute
\* nor a parameter is evaluated, the evaluator raises; evaluate raises with it
\* and produces no column for the dimension.
C7_FailClosed ==
    EvaluatesUnresolvable =>
        /\ pc = "raised"
        /\ \A k \in 1..Len(cols) : cols[k] # dimension

\* C7 witness: evaluate has raised on a rule that names the unknown identifier.
C7_Witness == EvaluatesUnresolvable /\ pc = "raised"

\* C8: if any rule of the dimension just processed names an unresolvable
\* identifier, evaluate has aborted, whatever the table and the rule's place.
C8_AllOrNothing ==
    (/\ dimension # ""
     /\ \E k \in 1..Len(rules) :
          /\ rules[k].kind = "when"
          /\ ~(Names(rules[k].when) \subseteq AttrNames \cup DOMAIN params \cup {"None"}))
    => pc = "raised"

\* The polygons that satisfy the join's predicate with input point p.
Satisfying(p) ==
    LET b == IF jpc = "natura" THEN cfg.buffer_meters ELSE 0
        name == IF jpc = "natura" THEN cfg.predicate_intersect ELSE "intersects"
    IN {k \in 1..Len(polygons) :
           Predicate(name, Buffer(portfolio[p].geometry, b), polygons[k].geometry)}

LeftJoined == (jpc = "natura" /\ cfg.join_how = "left") \/ jpc = "corine"

\* C9: a left join returns one row per input point, in input order, with one
\* satisfying polygon's attributes, or nulls for a point without a match.
C9_LeftJoinKeepsCardinality ==
    LeftJoined =>
        /\ Len(joined) = Len(portfolio)
        /\ \A p \in 1..Len(joined) :
              /\ joined[p].idx = portfolio[p].idx
              /\ IF Satisfying(p) = {} THEN joined[p].code = NullCode
                 ELSE \E k \in Satisfying(p) : joined[p].code = polygons[k].code

\* C10: an inner join returns at most as many rows as input points, each with
\* the non-null attributes of a polygon satisfying the predicate with its
\* point, drops the unmatched points and is empty for an empty layer.
C10_InnerJoinBounded ==
    (jpc = "natura" /\ cfg.join_how = "inner") =>
        /\ Len(joined) <= Len(portfolio)
        /\ \A r \in 1..Len(joined) :
              /\ joined[r].code # NullCode
              /\ \E p \in 1..Len(portfolio) :
                    /\ portfolio[p].idx = joined[r].idx
                    /\ \E k \in Satisfying(p) : polygons[k].code = joined[r].code
        /\ \A p \in 1..Len(portfolio) :
              Satisfying(p) = {} => \A r \in 1..Len(joined) : joined[r].idx # portfolio[p].idx
        /\ (polygons = <<>> => joined = <<>>)

\* C10 without the bound on the row count.
InnerJoinRowsMatched ==
    (jpc = "natura" /\ cfg.join_how = "inner") =>
        /\ \A r \in 1..Len(joined) :
              /\ joined[r].code # NullCode
              /\ \E p \in 1..Len(portfolio) :
                    /\ portfolio[p].idx = joined[r].idx
                    /\ \E k \in Satisfying(p) : polygons[k].code = joined[r].code
        /\ \A p \in 1..Len(portfolio) :
              Satisfying(p) = {} => \A r \in 1..Len(joined) : joined[r].idx # portfolio[p].idx
        /\ (polygons = <<>> => joined = <<>>)

\* ------------------------------------------------------------ C11, C12
\* The distance from a geometry to the nearest of all water features, by
\* comparing it with every one of them.
ExhaustiveMinimum(g) ==
    Min({Distance(g, water[k].geometry) : k \in 1..Len(water)})

DistanceReturned == jpc \in {"distance", "flagged"}

C12_FlagIffWithinThreshold ==
    [][(jpc = "distance" /\ jpc' = "flagged") =>
          /\ with_distance' = with_distance
          /\ Len(flagged') = Len(with_distance)
          /\ \A p \in 1..Len(with_distance) :
                /\ flagged'[p].near_water_bool
                      = (with_distance[p].dist_water_m <= threshold_m')
                /\ \A c \in DOMAIN with_distance[p] :
                      flagged'[p][c] = with_distance[p][c]
                /\ DOMAIN flagged'[p] = DOMAIN with_distance[p] \cup {"near_water_bool"}]_vars

\* A feature exactly at the threshold distance, flagged.
C12_Witness ==
    /\ jpc = "flagged"
    /\ \E p \in 1..Len(flagged) :
          /\ flagged[p].dist_water_m = threshold_m
          /\ threshold_m > 0
          /\ flagged[p].near_water_bool
    /\ \E p \in 1..Len(flagged) :
          /\ flagged[p].dist_water_m > threshold_m
          /\ ~flagged[p].near_water_bool

\* ------------------------------------------------------------ C14
Joined == jpc \in {"natura", "corine", "distance", "flagged"}

MeasuredInMetricCRS == measure_crs = <<"EPSG:3857", "EPSG:3857">>

\* C14: once a join operation (intersect_with_natura, overlay_corine,
\* distance_to_nearest_water) has returned, the buffer / join / distance was
\* computed with the portfolio and the reference layer both tagged with the
\* metric CRS, and the returned table carries the CRS tag the portfolio had on
\* entry, whichever geographic CRS that was.
C14_MetricThenOriginalCRS ==
    Joined =>
        /\ MeasuredInMetricCRS
        /\ portfolio_crs # NoCRS => out_crs = portfolio_crs

\* What the operations do: the result is tagged EPSG:4326 whatever came in.
MetricThenWGS84 ==
    Joined => MeasuredInMetricCRS /\ out_crs = WGS84

\* A portfolio in another geographic CRS went through a join.
OtherGeographicCRS_Joined ==
    Joined /\ portfolio_crs = "EPSG:4258"

\* ------------------------------------------------------------ C13
\* C13: evaluate leaves its input table as it was, and once it has returned,
\* every column the input had still holds in the returned table the values it
\* had in the input, also a column named <dimension>_category,
\* rulepack_version, rulepack_name or rule_audit.
C13_InputColumnsKept ==
    pc \in {"returned", "screened"} =>
        \A c \in in_cols : out_cols[c] = "input"

\* The input half: no step of evaluate changes the table it was given.
InputTableUnchanged ==
    [][gdf' = gdf /\ in_cols' = in_cols]_vars

\* Columns under other names than the ones evaluate assigns are kept.
OtherColumnsKept ==
    pc \in {"returned", "screened"} =>
        \A c \in in_cols :
            c \notin {result_col(d) : d \in Range(cols)}
                        \cup {"rulepack_version", "rulepack_name", "rule_audit"}
                => out_cols[c] = "input"

\* evaluate returned for an input that had a biodiversity_category column
\* and a pack with a biodiversity dimension.
InputCategoryColumn_Evaluated ==
    /\ pc = "returned"
    /\ "biodiversity_category" \in in_cols
    /\ "biodiversity" \in Range(cols)
    /\ gdf # <<>>

\* ------------------------------------------------------------ C15
Required == {"version", "name", "logic"}

Complete(d) == d.kind = "mapping" /\ Required \subseteq d.keys

\* C15: once load_pack is over, it has raised and returned no RulePack if the
\* document lacks version, name or logic; otherwise it has returned a RulePack
\* with the document's values, description being "" and parameters the empty
\* mapping where the document has none.
C15_RequiredFields ==
    lpc \in {"raised", "loaded"} =>
        IF Complete(doc)
        THEN /\ lpc = "loaded"
             /\ \A k \in Required : pack[k] = doc.data[k]
             /\ pack.description = (IF "description" \in doc.keys THEN doc.data.description ELSE "")
             /\ pack.parameters = (IF "parameters" \in doc.keys THEN doc.data.parameters ELSE <<>>)
        ELSE lpc = "raised" /\ pack = NoPack

\* A document with only the required fields has been loaded.
C15_Witness ==
    /\ lpc = "loaded"
    /\ doc.keys = Required
    /\ pack.description = "" /\ pack.parameters = <<>>

\* A mapping without a name has been refused.
MissingName_Refused ==
    /\ lpc = "raised"
    /\ doc.kind = "mapping"
    /\ doc.keys = Keys \ {"name"}

\* ------------------------------------------------------------ C16
\* The providers that find the query, by position in the provider list.
Finders(q) == {k \in 1..Len(providers) : answers[<<providers[k], q>>] = "found"}

\* C16: a step of geocode_dataframe returns, whatever the providers do
\* (find, find nothing, raise), a table tagged EPSG:4326 with the rows of the
\* input in the same order, lon and lat being the coordinates found by the
\* first provider that finds the row's address and null when none does, and
\* leaves the input table as it was.
C16_GeocodeAlwaysReturns ==
    [][gpc = "input" /\ gpc' # "input" =>
          /\ gpc' = "returned"
          /\ df' = df
          /\ geocoded_crs' = WGS84
          /\ Len(geocoded') = Len(df)
          /\ \A p \in 1..Len(df) :
                LET q == df[p].address
                IN /\ geocoded'[p].idx = df[p].idx
                   /\ geocoded'[p].address = q
                   /\ IF Finders(q) = {}
                      THEN geocoded'[p].lon = PyNone /\ geocoded'[p].lat = PyNone
                      ELSE LET loc == Location(providers[Min(Finders(q))], q)
                           IN /\ geocoded'[p].lon = loc.longitude
                              /\ geocoded'[p].lat = loc.latitude]_vars

\* A table came back with one row resolved by the second provider after the
\* first one raised, and one row that no provider resolved.
C16_Witness ==
    /\ gpc = "returned"
    /\ Len(providers) = 2
    /\ \E p \in 1..Len(df) :
          /\ answers[<<providers[1], df[p].address>>] = "raise"
          /\ geocoded[p].lat = Location(providers[2], df[p].address).latitude
    /\ \E p \in 1..Len(df) :
          /\ \E k \in 1..2 : answers[<<providers[k], df[p].address>>] = "raise"
          /\ geocoded[p].lon = PyNone

\* ------------------------------------------------------------ C17, C18
\* The data a page needs is not there: the key is missing or holds None.
Missing(entry) == ~entry.present \/ entry.value = 0

\* C17: a run of page 2 while no portfolio is stored, and a run of page 3 or
\* page 4 while no results are stored, ends with the page's warning: nothing
\* is dereferenced, no screening starts, no results are read.
C17_WarningBeforeData ==
    /\ page = "2" /\ Missing(portfolio_gdf) => shown = "warning"
    /\ page \in {"3", "4"} /\ Missing(screen_results) => shown = "warning"

\* What happens instead: main() has stored None under both keys before the
\* page runs, so no page ever shows its warning.
NeverWarns == shown # "warning"

\* Page 2 was opened in a fresh session and ended in an exception.
Page2_BeforeUpload ==
    page = "2" /\ portfolio_gdf = None /\ shown = "exception"

\* C18: whenever screen_results holds results, they were computed from the
\* portfolio that portfolio_gdf holds.
C18_ResultsOfCurrentPortfolio ==
    screen_results.value # 0 => screen_results.value = portfolio_gdf.value

\* Page 3 shows the results of one portfolio while another one is stored.
StaleResults_Shown ==
    /\ page = "3" /\ shown = "results"
    /\ screen_results.value # portfolio_gdf.value
====
